---- MODULE Spec2Model ----
(***************************************************************************)
(* Soil moisture sketches of "Final Code Version 1":                       *)
(*   - the minimal dual-sensor sketch      (lines 1-33),                   *)
(*   - the single-sensor sketch            (lines 35-111),                 *)
(*   - the enhanced two-sensor sketch      (lines 114-351).                *)
(*                                                                         *)
(* Spec      follows the enhanced sketch statement by statement (setup,    *)
(*           checkSensor, readSensor, sendData); the outcome of the        *)
(*           interval test of loop() is an input there, for all three      *)
(*           sketches.                                                     *)
(* SchedSpec runs the loop() of all three sketches against the clock; the  *)
(*           acquisition of the enhanced sketch is represented there by    *)
(*           the time its delays take.                                     *)
(* MedianSpec applies readSensor's validated branch to every sequence of   *)
(*           five samples over a small set of codes.                       *)
(* LiveSpec  is Spec under weak fairness of the program's steps, with both *)
(*           channels free to deliver any sample.                          *)
(*                                                                         *)
(* The clock is an unsigned counter of ClockBits bits.  On the board it is *)
(* 32 bits wide; the width is a parameter of the model because the model   *)
(* checker's integers are 32-bit signed.                                   *)
(***************************************************************************)
EXTENDS Integers, Sequences, FiniteSets, TLC

\* ------------------------------------------------------------------ bounds
MaxTicks  == 6      \* loop iterations observed against the clock
ClockBits == 14     \* width of the unsigned millisecond clock

\* --------------------------------------------------- constants of the code
numReadings      == 5
sendInterval     == 5000
readInterval     == 5000
powerPrewarmTime == 100
sensorPowerPinA0 == 7
sensorPowerPinA1 == 8
sampleDelay      == 10
setupDelay       == 1000
airValue         == 1023
waterValue       == 300
airValueA0       == 1023
waterValueA0     == 300
airValueA1       == 1023
waterValueA1     == 300
AdcMax           == 1023
NoGoodReading    == -1

Channels == {0, 1}
Sketches == {"minimal", "single", "enhanced"}

\* Values analogRead returns in the model: both rails and a mid-scale code.
Samples == {0, 600, 1023}

\* What the sensors deliver in a run.  Either both channels deliver any of
\* Samples and no history is recorded, or one channel is watched (its medians
\* are recorded in hist) and delivers a steady 600, 600 with dropouts to the
\* upper rail, or the upper rail only (a sensor that is not connected), while
\* the other channel delivers 600 with dropouts.
FreeFeed == [c \in Channels |-> Samples]
WatchedFeeds(w) ==
  { [c \in Channels |-> IF c = w THEN own ELSE {600, 1023}] :
      own \in {{600}, {600, 1023}, {1023}} }

ClockModulus == 2 ^ ClockBits

VARIABLES
  sketch,            \* which of the three sketches is running
  serial,            \* lines printed by the latest step
  pc,                \* enhanced sketch: position of the control flow
  caller,            \* enhanced sketch: who called checkSensor
  cur,               \* enhanced sketch: channel being handled (0 = A0, 1 = A1)
  powerPin,          \* level of sensorPowerPinA0 / sensorPowerPinA1
  readings,          \* readingsA0 / readingsA1
  readIndex,
  totalReading,      \* totalReadingA0 / totalReadingA1
  rawValue,          \* rawValueA0 / rawValueA1
  percentage,        \* percentageA0 / percentageA1
  lastGoodReading,   \* lastGoodReadingA0 / lastGoodReadingA1
  sensorError,       \* sensorErrorA0 / sensorErrorA1
  testReading,       \* local of checkSensor
  rawMoistureValue,  \* single-sensor sketch
  moisturePercentage,
  previousMillis,
  lastSendTime,      \* minimal and enhanced sketch
  clock,             \* what millis() returns now
  phase,             \* "wait": time passes, "poll": loop() runs once
  ticks,             \* loop iterations so far
  tickNow,           \* the millis() value the latest interval test used
  fired,             \* whether the latest interval test passed
  elapsed,           \* history: real time since the recorded last-fire time
  prevInvalid,       \* history: the channel's latest validation reading was 0/1023
  feed,              \* environment: the values analogRead can return per channel
  watch,             \* history: the channel whose medians are recorded, or -1
  hist,              \* history: medians of the last <= numReadings validated cycles
  tempReadings,      \* the samples handed to the filter, when they are given in advance
  acquired,          \* history: channels readSensor has returned for in this cycle
  lastStamp          \* history: timestamp on the latest data line of a loop run
                     \* against the clock, -1 before the first

enhVars  == <<pc, caller, cur, powerPin, readings, readIndex, totalReading,
              rawValue, percentage, lastGoodReading, sensorError, testReading>>
histVars == <<prevInvalid, feed, watch, hist>>
singleVars == <<rawMoistureValue, moisturePercentage, previousMillis>>
clockVars == <<clock, phase, ticks, tickNow, fired, elapsed>>
vars == <<sketch, serial, enhVars, histVars, singleVars, lastSendTime, clockVars,
          tempReadings, acquired, lastStamp>>

\* ------------------------------------------------------- library functions
Abs(x) == IF x < 0 THEN -x ELSE x

\* C++ integer division truncates toward zero.
CDiv(a, b) ==
  LET q == Abs(a) \div Abs(b)
  IN  IF (a < 0) = (b < 0) THEN q ELSE -q

\* Arduino map(): (x - in_min) * (out_max - out_min) / (in_max - in_min) + out_min
map(x, in_min, in_max, out_min, out_max) ==
  CDiv((x - in_min) * (out_max - out_min), in_max - in_min) + out_min

\* Arduino constrain(): ((x) < (lo) ? (lo) : ((x) > (hi) ? (hi) : (x)))
constrainLowOnly(x, lo, hi) == IF x < lo THEN lo ELSE x
constrain(x, lo, hi) == IF x < lo THEN lo ELSE IF x > hi THEN hi ELSE x

\* 16-bit int of the board.
Int16(x) == ((x + 32768) % 65536) - 32768

\* unsigned long subtraction of two clock values
USub(a, b) == (a - b + ClockModulus) % ClockModulus
UAdd(a, b) == (a + b) % ClockModulus

\* ------------------------------------------------------------ lines printed
ErrorLine(c)      == <<"ERROR", c, 0, 0>>
WarningLine(c, v) == <<"WARNING", c, v, 0>>
CsvLineSwapped(t, a, b) == <<"CSV", t, b, a>>
CsvLine(t, a, b)  == <<"CSV", t, a, b>>
DataLine(r, p)    == <<"DATA", r, p, 0>>
BannerLine        == <<"BANNER", 0, 0, 0>>

\* ------------------------------------------------- checkSensor (219-250)
\* line 238: a reading at either rail is out of the expected range
IsZero(r) == r = 0
IsOutOfRange(r) == r = 0 \/ r = AdcMax

\* lines 238-248: the error flag checkSensor leaves behind
ErrorFlagLatched(flag, r) == flag \/ IsOutOfRange(r)
ErrorFlagAfter(flag, r) == IF IsOutOfRange(r) THEN TRUE ELSE FALSE

\* lines 239-243: what checkSensor prints
ErrorReport(c, flag, r) ==
  IF IsOutOfRange(r) /\ ~flag THEN <<ErrorLine(c)>> ELSE <<>>

\* ---------------------------------------------------- readSensor (266-338)
\* line 221 and the arguments of lines 255, 260
PowerPinOf(c) == IF c = 0 THEN sensorPowerPinA0 ELSE sensorPowerPinA1

\* lines 224-225, 233-234, 271-272, 335-336: digitalWrite when a pin is configured
DriveHigh(pins, c, level) == [pins EXCEPT ![c] = "HIGH"]
DriveAll(pins, c, level) == [x \in Channels |-> level]
Drive(pins, c, level) ==
  IF PowerPinOf(c) # -1 THEN [pins EXCEPT ![c] = level] ELSE pins

Air(c)   == IF c = 0 THEN airValueA0 ELSE airValueA1
Water(c) == IF c = 0 THEN waterValueA0 ELSE waterValueA1

\* lines 288-298: bubble sort, j and j+1 counted from 1 here
RECURSIVE InnerPass(_, _, _)
InnerPass(t, j, last) ==
  IF j > last THEN t
  ELSE InnerPass(IF t[j] > t[j + 1]
                   THEN [t EXCEPT ![j] = t[j + 1], ![j + 1] = t[j]]
                   ELSE t,
                 j + 1, last)

RECURSIVE BubbleSort(_, _)
BubbleSort(t, i) ==
  IF i >= numReadings - 1 THEN t
  ELSE BubbleSort(InnerPass(t, 1, numReadings - i - 1), i + 1)

\* line 301: tempReadings[numReadings / 2] of the sorted array
MedianOfUnsorted(t) == t[(numReadings \div 2) + 1]
Median(t) == BubbleSort(t, 0)[(numReadings \div 2) + 1]

\* line 279: *totalReading = *totalReading - readings[readIndex]
KeepOld(total, old) == total
SubtractOld(total, old) == Int16(total - old)

\* lines 308-315: percentage of a validated cycle
AveragePercentage(total, air, water) ==
  constrain(map(CDiv(total, numReadings), air, water, 0, 100), 0, 100)

\* lines 324-325: percentage of a fallback cycle
FallbackOfAverage(raw, air, water) ==
  constrain(map(CDiv(raw, numReadings), air, water, 0, 100), 0, 100)
FallbackPercentage(raw, air, water) ==
  constrain(map(raw, air, water, 0, 100), 0, 100)

\* ------------------------------------------------ readSoilMoisture (92-102)
SoilPercentage(raw) == constrain(map(raw, airValue, waterValue, 0, 100), 0, 100)

\* ----------------------------------------- interval test (15, 79, 206)
IsDueNoLast(now, last, interval) == now >= interval
IsDueSigned(now, last, interval) == now - last >= interval
IsDue(now, last, interval) == USub(now, last) >= interval

\* ------------------------------------------------------------ initial state
\* File-scope initialisers: lines 3, 52, 59-60, 139, 154-168.
Init ==
  /\ sketch \in Sketches
  /\ serial = <<>>
  /\ pc = "setup"
  /\ caller = "setup"
  /\ cur = 0
  /\ powerPin = [c \in Channels |-> "LOW"]
  /\ readings = [c \in Channels |-> [i \in 1..numReadings |-> 0]]
  /\ readIndex = 0
  /\ totalReading = [c \in Channels |-> 0]
  /\ rawValue = [c \in Channels |-> 0]
  /\ percentage = [c \in Channels |-> 0]
  /\ lastGoodReading = [c \in Channels |-> NoGoodReading]
  /\ sensorError = [c \in Channels |-> FALSE]
  /\ testReading = -1
  /\ rawMoistureValue = 0
  /\ moisturePercentage = 0
  /\ previousMillis = 0
  /\ lastSendTime = 0
  /\ clock = 0
  /\ phase = "wait"
  /\ ticks = 0
  /\ tickNow = 0
  /\ fired = FALSE
  /\ elapsed = 0
  /\ prevInvalid = [c \in Channels |-> FALSE]
  /\ watch \in (IF sketch = "enhanced" THEN {-1} \cup Channels ELSE {-1})
  /\ feed \in (IF watch = -1 THEN {FreeFeed} ELSE WatchedFeeds(watch))
  /\ hist = <<>>
  /\ tempReadings = <<>>
  /\ acquired = {}
  /\ lastStamp = -1

\* --------------------------------------------------------- enhanced sketch
\* setup(), lines 170-197: pins low, buffers zeroed, banner; then the two
\* checkSensor calls of lines 200-201.  The other sketches' setup() (6-11,
\* 62-72) only opens the serial port and prints.
Setup ==
  /\ pc = "setup"
  /\ IF sketch = "enhanced"
       THEN /\ powerPin' = Drive(Drive(powerPin, 0, "LOW"), 1, "LOW")
            /\ readings' = [c \in Channels |-> [i \in 1..numReadings |-> 0]]
            /\ serial' = <<BannerLine, BannerLine>>
            /\ pc' = "chk_on"
            /\ caller' = "setup"
            /\ cur' = 0
       ELSE /\ serial' = IF sketch = "single" THEN <<BannerLine, BannerLine>> ELSE <<>>
            /\ pc' = "loop"
            /\ UNCHANGED <<powerPin, readings, caller, cur>>
  /\ UNCHANGED <<sketch, tempReadings, acquired, lastStamp, readIndex,
                 totalReading, rawValue, percentage, lastGoodReading,
                 sensorError, testReading, histVars, singleVars, lastSendTime,
                 clockVars>>

\* checkSensor, lines 221-227: power the sensor and wait
CheckPowerOn ==
  /\ pc = "chk_on"
  /\ powerPin' = Drive(powerPin, cur, "HIGH")
  /\ pc' = "chk_read"
  /\ serial' = <<>>
  /\ UNCHANGED <<sketch, tempReadings, acquired, lastStamp, caller, cur,
                 readings, readIndex, totalReading, rawValue, percentage,
                 lastGoodReading, sensorError, testReading, histVars,
                 singleVars, lastSendTime, clockVars>>

\* checkSensor, line 230: the validation sample
CheckRead ==
  /\ pc = "chk_read"
  /\ \E s \in feed[cur] : testReading' = s
  /\ pc' = "chk_eval"
  /\ serial' = <<>>
  /\ UNCHANGED <<sketch, tempReadings, acquired, lastStamp, caller, cur,
                 powerPin, readings, readIndex, totalReading, rawValue,
                 percentage, lastGoodReading, sensorError, histVars,
                 singleVars, lastSendTime, clockVars>>

\* checkSensor, lines 232-250: power off, classify, report, return
CheckVerdict ==
  /\ pc = "chk_eval"
  /\ powerPin' = Drive(powerPin, cur, "LOW")
  /\ serial' = ErrorReport(cur, sensorError[cur], testReading)
  /\ sensorError' = [sensorError EXCEPT ![cur] = ErrorFlagAfter(@, testReading)]
  /\ prevInvalid' = [prevInvalid EXCEPT ![cur] = testReading \in {0, 1023}]
  /\ testReading' = -1
  /\ IF caller = "setup"
       THEN IF cur = 0
              THEN pc' = "chk_on" /\ cur' = 1 /\ caller' = caller
              ELSE pc' = "loop" /\ cur' = 0 /\ caller' = caller
       ELSE /\ pc' = IF IsOutOfRange(testReading) THEN "fallback" ELSE "filter"
            /\ UNCHANGED <<cur, caller>>
  /\ UNCHANGED <<sketch, tempReadings, acquired, lastStamp, readings,
                 readIndex, totalReading, rawValue, percentage,
                 lastGoodReading, feed, watch, hist, singleVars, lastSendTime,
                 clockVars>>

\* loop(), lines 204-208: the interval test; its outcome is an input here
LoopEnhanced ==
  /\ pc = "loop"
  /\ sketch = "enhanced"
  /\ \E due \in BOOLEAN :
       IF due
         THEN /\ pc' = "rs_on"
              /\ cur' = 0
              /\ caller' = "readSensor"
              /\ serial' = <<>>
              /\ acquired' = {}
              /\ UNCHANGED <<sketch, tempReadings, lastStamp, powerPin,
                             readings, readIndex, totalReading, rawValue,
                             percentage, lastGoodReading, sensorError,
                             testReading, histVars, singleVars, lastSendTime,
                             clockVars>>
         ELSE UNCHANGED vars

\* readSensor, lines 270-274: power the sensor and wait
SensorPowerOn ==
  /\ pc = "rs_on"
  /\ powerPin' = Drive(powerPin, cur, "HIGH")
  /\ pc' = "chk_on"
  /\ serial' = <<>>
  /\ UNCHANGED <<sketch, tempReadings, acquired, lastStamp, caller, cur,
                 readings, readIndex, totalReading, rawValue, percentage,
                 lastGoodReading, sensorError, testReading, histVars,
                 singleVars, lastSendTime, clockVars>>

\* readSensor, lines 279-318: five samples, median, buffer, percentage
FilterSamples(t) ==
  /\ \E med \in {Median(t)} :
     LET old   == readings[cur][readIndex + 1]
         less  == SubtractOld(totalReading[cur], old)
         total == Int16(less + med)
     IN  /\ rawValue' = [rawValue EXCEPT ![cur] = med]
         /\ readings' = [readings EXCEPT ![cur][readIndex + 1] = med]
         /\ totalReading' = [totalReading EXCEPT ![cur] = total]
         /\ percentage' = [percentage EXCEPT ![cur] =
                             AveragePercentage(total, Air(cur), Water(cur))]
         /\ lastGoodReading' = [lastGoodReading EXCEPT ![cur] = med]
         /\ hist' = IF cur # watch THEN hist
                    ELSE IF Len(hist) < numReadings THEN Append(hist, med)
                    ELSE Append(Tail(hist), med)
  /\ pc' = "rs_off"
  /\ serial' = <<>>
  /\ UNCHANGED <<sketch, tempReadings, acquired, lastStamp, caller, cur,
                 powerPin, readIndex, sensorError, testReading, prevInvalid,
                 feed, watch, singleVars, lastSendTime, clockVars>>

\* lines 283-286: the five samples come from analogRead
FilterUpdate ==
  /\ pc = "filter"
  /\ \E t \in [1..numReadings -> feed[cur]] : FilterSamples(t)

\* line 321: *lastGoodReading != -1
AnyLastGood(last) == TRUE
HasLastGood(last) == last # NoGoodReading

\* readSensor, lines 319-332: fall back to the last good reading
Fallback ==
  /\ pc = "fallback"
  /\ IF HasLastGood(lastGoodReading[cur])
       THEN /\ rawValue' = [rawValue EXCEPT ![cur] = lastGoodReading[cur]]
            /\ percentage' = [percentage EXCEPT ![cur] =
                 FallbackPercentage(lastGoodReading[cur], Air(cur), Water(cur))]
            /\ serial' = <<WarningLine(cur, lastGoodReading[cur])>>
       ELSE /\ serial' = <<>>
            /\ UNCHANGED <<rawValue, percentage>>
  /\ pc' = "rs_off"
  /\ UNCHANGED <<sketch, tempReadings, acquired, lastStamp, caller, cur,
                 powerPin, readings, readIndex, totalReading, lastGoodReading,
                 sensorError, testReading, histVars, singleVars, lastSendTime,
                 clockVars>>

\* readSensors, lines 253-263: readSensor for A0, then for A1, then back to
\* loop(), which calls sendData (line 211)
AfterChannelA0Only(c) == <<"send", 0>>
AfterChannelAgain(c) == <<"rs_on", c>>
AfterChannel(c) == IF c = 0 THEN <<"rs_on", 1>> ELSE <<"send", 0>>

\* readSensor, lines 334-337: power off; readSensors (253-263) goes on to A1
SensorPowerOff ==
  /\ pc = "rs_off"
  /\ powerPin' = Drive(powerPin, cur, "LOW")
  /\ pc' = AfterChannel(cur)[1]
  /\ cur' = AfterChannel(cur)[2]
  /\ acquired' = acquired \cup {cur}
  /\ serial' = <<>>
  /\ UNCHANGED <<sketch, tempReadings, lastStamp, caller, readings, readIndex,
                 totalReading, rawValue, percentage, lastGoodReading, sensorError,
                 testReading, histVars, singleVars, lastSendTime, clockVars>>

\* sendData, lines 341-351, and line 214
SendData ==
  /\ pc = "send"
  /\ serial' = <<CsvLine(clock, rawValue[0], rawValue[1])>>
  /\ lastSendTime' = clock
  /\ pc' = "loop"
  /\ UNCHANGED <<sketch, tempReadings, acquired, lastStamp, caller, cur,
                 powerPin, readings, readIndex, totalReading, rawValue,
                 percentage, lastGoodReading, sensorError, testReading,
                 histVars, singleVars, clockVars>>

\* ---------------------------------------------- single-sensor sketch, minimal
\* readSoilMoisture (92-102) and sendData (105-111) of the single-sensor sketch
ReadAndSend(s) ==
  /\ rawMoistureValue' = s
  /\ moisturePercentage' = SoilPercentage(s)
  /\ serial' = <<DataLine(s, SoilPercentage(s))>>

\* loop() of the single-sensor sketch, lines 74-89; test outcome as input
LoopSingle ==
  /\ pc = "loop"
  /\ sketch = "single"
  /\ \E due \in BOOLEAN :
       IF due
         THEN /\ previousMillis' = clock
              /\ \E s \in feed[0] : ReadAndSend(s)
              /\ UNCHANGED <<sketch, tempReadings, acquired, lastStamp,
                             enhVars, histVars, lastSendTime, clockVars>>
         ELSE UNCHANGED vars

\* loop() of the minimal sketch, lines 13-33; test outcome as input
LoopMinimal ==
  /\ pc = "loop"
  /\ sketch = "minimal"
  /\ \E due \in BOOLEAN :
       IF due
         THEN /\ \E a0 \in feed[0], a1 \in feed[1] :
                   serial' = <<CsvLine(clock, a0, a1)>>
              /\ lastSendTime' = clock
              /\ UNCHANGED <<sketch, tempReadings, acquired, lastStamp,
                             enhVars, histVars, singleVars, clockVars>>
         ELSE UNCHANGED vars

Next ==
  \/ Setup
  \/ CheckPowerOn
  \/ CheckRead
  \/ CheckVerdict
  \/ LoopEnhanced
  \/ SensorPowerOn
  \/ FilterUpdate
  \/ Fallback
  \/ SensorPowerOff
  \/ SendData
  \/ LoopSingle
  \/ LoopMinimal

Spec == Init /\ [][Next]_vars

\* The board's main() calls loop() forever, every statement of the sketches
\* returns (the delays of lines 226, 273 and 285 are finite), and the clock
\* keeps advancing, so the interval test passes again and again: a step that
\* can be taken is eventually taken.
\* Progress is followed with both channels free to deliver any sample.
LiveInit == Init /\ watch = -1
LiveSpec == LiveInit /\ [][Next]_vars /\ WF_vars(Next)

\* ------------------------------------------------- the loops against the clock
\* Time between two loop iterations, in milliseconds.
ClockSteps == {1, 4999, 5000}

\* Milliseconds setup() takes: delay(1000) at line 67; two checkSensor calls
\* with delay(powerPrewarmTime) at lines 200-201 and 226.
SetupTime(s) ==
  IF s = "single" THEN setupDelay
  ELSE IF s = "enhanced" THEN 2 * powerPrewarmTime
  ELSE 0

\* Milliseconds readSensors() delays when k of the two channels validate:
\* lines 273 and 226 for each channel, line 285 numReadings times per valid one.
AcquireTime(k) == 2 * (2 * powerPrewarmTime) + k * numReadings * sampleDelay

\* The state when loop() is first entered.
SchedInit ==
  /\ sketch \in Sketches
  /\ serial = <<>>
  /\ pc = "loop"
  /\ caller = "setup"
  /\ cur = 0
  /\ powerPin = [c \in Channels |-> "LOW"]
  /\ readings = [c \in Channels |-> [i \in 1..numReadings |-> 0]]
  /\ readIndex = 0
  /\ totalReading = [c \in Channels |-> 0]
  /\ rawValue = [c \in Channels |-> 0]
  /\ percentage = [c \in Channels |-> 0]
  /\ lastGoodReading = [c \in Channels |-> NoGoodReading]
  /\ sensorError = [c \in Channels |-> FALSE]
  /\ testReading = -1
  /\ rawMoistureValue = 0
  /\ moisturePercentage = 0
  /\ previousMillis = 0
  /\ lastSendTime = 0
  /\ clock = SetupTime(sketch)
  /\ phase = "wait"
  /\ ticks = 0
  /\ tickNow = 0
  /\ fired = FALSE
  /\ elapsed = SetupTime(sketch)
  /\ prevInvalid = [c \in Channels |-> FALSE]
  /\ watch = -1
  /\ feed = FreeFeed
  /\ hist = <<>>
  /\ tempReadings = <<>>
  /\ acquired = {}
  /\ lastStamp = -1

\* Time passes before loop() runs again.
Advance ==
  /\ phase = "wait"
  /\ ticks < MaxTicks
  /\ \E d \in ClockSteps :
       /\ clock' = UAdd(clock, d)
       /\ elapsed' = elapsed + d
  /\ phase' = "poll"
  /\ ticks' = ticks + 1
  /\ serial' = <<>>
  /\ UNCHANGED <<sketch, tempReadings, acquired, lastStamp, enhVars, histVars,
                 singleVars, lastSendTime, tickNow, fired>>

\* One loop() of the minimal sketch, lines 13-33.
TickMinimal ==
  /\ phase = "poll"
  /\ sketch = "minimal"
  /\ tickNow' = clock
  /\ phase' = "wait"
  /\ IF IsDue(clock, lastSendTime, sendInterval)
       THEN \E a0 \in feed[0], a1 \in feed[1], d1 \in {0, 1}, d2 \in {0, 1} :
              LET timestamp == UAdd(clock, d1)
              IN  /\ serial' = <<CsvLine(timestamp, a0, a1)>>
                  /\ lastStamp' = timestamp
                  /\ lastSendTime' = UAdd(timestamp, d2)
                  /\ clock' = UAdd(timestamp, d2)
                  /\ elapsed' = 0
                  /\ fired' = TRUE
       ELSE /\ serial' = <<>>
            /\ fired' = FALSE
            /\ UNCHANGED <<lastStamp, lastSendTime, clock, elapsed>>
  /\ UNCHANGED <<sketch, tempReadings, acquired, enhVars, histVars, singleVars,
                 ticks>>

\* One loop() of the single-sensor sketch, lines 74-89.
TickSingle ==
  /\ phase = "poll"
  /\ sketch = "single"
  /\ tickNow' = clock
  /\ phase' = "wait"
  /\ IF IsDue(clock, previousMillis, readInterval)
       THEN \E s \in feed[0], d \in {0, 1} :
              /\ previousMillis' = clock
              /\ ReadAndSend(s)
              /\ clock' = UAdd(clock, d)
              /\ elapsed' = d
              /\ fired' = TRUE
       ELSE /\ serial' = <<>>
            /\ fired' = FALSE
            /\ UNCHANGED <<singleVars, clock, elapsed>>
  /\ UNCHANGED <<sketch, tempReadings, acquired, lastStamp, enhVars, histVars,
                 lastSendTime, ticks>>

\* One loop() of the enhanced sketch, lines 204-216; readSensors() is
\* represented by the time it takes.
TickEnhanced ==
  /\ phase = "poll"
  /\ sketch = "enhanced"
  /\ tickNow' = clock
  /\ phase' = "wait"
  /\ IF IsDue(clock, lastSendTime, sendInterval)
       THEN \E k \in 0..2, d \in {0, 1} :
              LET timestamp == UAdd(clock, AcquireTime(k))
              IN  /\ serial' = <<CsvLine(timestamp, rawValue[0], rawValue[1])>>
                  /\ lastStamp' = timestamp
                  /\ lastSendTime' = UAdd(timestamp, d)
                  /\ clock' = UAdd(timestamp, d)
                  /\ elapsed' = 0
                  /\ fired' = TRUE
       ELSE /\ serial' = <<>>
            /\ fired' = FALSE
            /\ UNCHANGED <<lastStamp, lastSendTime, clock, elapsed>>
  /\ UNCHANGED <<sketch, tempReadings, acquired, enhVars, histVars, singleVars,
                 ticks>>

SchedNext ==
  \/ Advance
  \/ TickMinimal
  \/ TickSingle
  \/ TickEnhanced

SchedSpec == SchedInit /\ [][SchedNext]_vars

\* --------------------------------------------- the filter on given samples
\* Values the five samples of lines 283-286 are drawn from.
SortSamples == {0, 300, 600, 900, 1023}

\* readSensor of either channel after checkSensor returned true (line 277),
\* in the first cycle, with the five samples of lines 283-286 fixed.
MedianInit ==
  /\ sketch = "enhanced"
  /\ serial = <<>>
  /\ pc = "filter"
  /\ caller = "readSensor"
  /\ cur \in Channels
  /\ powerPin = [c \in Channels |-> "LOW"]
  /\ readings = [c \in Channels |-> [i \in 1..numReadings |-> 0]]
  /\ readIndex = 0
  /\ totalReading = [c \in Channels |-> 0]
  /\ rawValue = [c \in Channels |-> 0]
  /\ percentage = [c \in Channels |-> 0]
  /\ lastGoodReading = [c \in Channels |-> NoGoodReading]
  /\ sensorError = [c \in Channels |-> FALSE]
  /\ testReading = -1
  /\ rawMoistureValue = 0
  /\ moisturePercentage = 0
  /\ previousMillis = 0
  /\ lastSendTime = 0
  /\ clock = 0
  /\ phase = "wait"
  /\ ticks = 0
  /\ tickNow = 0
  /\ fired = FALSE
  /\ elapsed = 0
  /\ prevInvalid = [c \in Channels |-> FALSE]
  /\ watch = -1
  /\ feed = FreeFeed
  /\ hist = <<>>
  /\ tempReadings \in [1..numReadings -> SortSamples]
  /\ acquired = {}
  /\ lastStamp = -1

\* lines 288-318 applied to the given samples
FilterGiven ==
  /\ pc = "filter"
  /\ tempReadings # <<>>
  /\ FilterSamples(tempReadings)

MedianNext == FilterGiven

MedianSpec == MedianInit /\ [][MedianNext]_vars

\* ===================================================================== claims
RECURSIVE SumSeq(_)
SumSeq(q) == IF q = <<>> THEN 0 ELSE Head(q) + SumSeq(Tail(q))

\* The recorded last-fire time of the running sketch.
LastFire == IF sketch = "single" THEN previousMillis ELSE lastSendTime

\* The percentage a raw value maps to on the dry 1023 .. wet 300 line, clamped.
ClampedLinear(v) ==
  LET p == ((1023 - v) * 100) \div 723
  IN  IF p > 100 THEN 100 ELSE IF p < 0 THEN 0 ELSE p

\* C1: between cycles, once numReadings cycles of a channel have passed
\* validation, the channel's running sum is the sum of the medians of its last
\* numReadings validated cycles.
C1_RollingSum ==
  (pc = "loop" /\ watch # -1 /\ Len(hist) = numReadings)
    => totalReading[watch] = SumSeq(hist)

\* C2: a channel whose every sample is 600 shows 58 percent after every cycle
\* once numReadings of its cycles have passed validation.
C2_SteadyPercentage ==
  (pc = "loop" /\ watch # -1 /\ feed[watch] = {600} /\ Len(hist) = numReadings)
    => percentage[watch] = 58

\* C3: the power output of the channel is high whenever one of its analog
\* samples is about to be taken: the validation sample of checkSensor and the
\* filter samples of readSensor.
C3_PoweredWhileSampling ==
  (sketch = "enhanced" /\ pc \in {"chk_read", "filter"}) => powerPin[cur] = "HIGH"

\* C4: checkSensor prints the ERROR line exactly when its reading is invalid
\* and the channel's previous validation reading was not; it leaves the error
\* flag true exactly when the reading is invalid; no other step prints an
\* ERROR line or changes a flag.
C4_ErrorOncePerRun ==
  [][ IF pc = "chk_eval"
        THEN LET bad == testReading \in {0, 1023}
             IN  /\ (serial' = <<ErrorLine(cur)>>) <=> (bad /\ ~prevInvalid[cur])
                 /\ serial' \in {<<>>, <<ErrorLine(cur)>>}
                 /\ sensorError'[cur] = bad
                 /\ \A c \in Channels \ {cur} : sensorError'[c] = sensorError[c]
        ELSE /\ sensorError' = sensorError
             /\ \A i \in 1..Len(serial') : serial'[i][1] # "ERROR"
    ]_vars

\* C4 witness: a second invalid reading in a row has been classified and
\* nothing was printed for it.
C4_Witness ==
  /\ pc = "fallback"
  /\ serial = <<>>
  /\ sensorError[cur]
  /\ prevInvalid[cur]

\* C5: a cached last-good value is never a rail value.
C5_LastGoodValidated ==
  \A c \in Channels :
    lastGoodReading[c] = -1 \/ lastGoodReading[c] \notin {0, 1023}

\* C6: a failed validation with a last-good value present reports that value,
\* maps it to its clamped percentage and prints one WARNING line carrying it;
\* both still stand when the data line of the cycle is sent.
C6_FallbackUsesLastGood ==
  /\ [][ (pc = "fallback" /\ lastGoodReading[cur] # -1)
          => /\ rawValue'[cur] = lastGoodReading[cur]
             /\ percentage'[cur] = ClampedLinear(lastGoodReading[cur])
             /\ serial' = <<WarningLine(cur, lastGoodReading[cur])>>
       ]_vars
  /\ [](pc = "send" =>
          \A c \in Channels :
            (prevInvalid[c] /\ lastGoodReading[c] # -1)
              => /\ rawValue[c] = lastGoodReading[c]
                 /\ percentage[c] = ClampedLinear(lastGoodReading[c]))

\* C6 witness: channel A0 has just fallen back to a cached 600.
C6_Witness ==
  /\ pc = "rs_off"
  /\ cur = 0
  /\ prevInvalid[0]
  /\ serial = <<WarningLine(0, 600)>>
  /\ rawValue[0] = 600
  /\ percentage[0] = 58

\* C7: in every sketch, loop() fires exactly when now - lastFireTime >=
\* interval and then records that same now as the last-fire time.
C7_RecordsTestTime ==
  [][ phase = "poll"
        => /\ fired' <=> (USub(clock, LastFire) >= sendInterval)
           /\ fired' => LastFire' = clock
    ]_vars

\* C8: loop() fires exactly when (now - lastFireTime) mod 2^ClockBits >=
\* interval, which is exactly when at least the interval has really elapsed
\* since the recorded last-fire time, whether or not the clock has wrapped in
\* between.
C8_FiresAcrossWrap ==
  [][ phase = "poll"
        => /\ fired' <=> (elapsed >= sendInterval)
           /\ fired' <=> (((clock - LastFire) % ClockModulus) >= sendInterval)
    ]_vars

\* C8 witness: a cycle fired at a clock reading below the interval, which
\* only happens after the clock has wrapped.
C8_Witness ==
  /\ fired
  /\ phase = "wait"
  /\ tickNow < sendInterval

\* C9: every percentage is in 0..100.
C9_PercentageInRange ==
  /\ \A c \in Channels : percentage[c] \in 0..100
  /\ moisturePercentage \in 0..100

\* C9 witness: a validated cycle whose unclamped map result is above 100.
C9_Witness ==
  /\ pc = "rs_off"
  /\ ~prevInvalid[cur]
  /\ map(CDiv(totalReading[cur], numReadings), Air(cur), Water(cur), 0, 100) > 100
  /\ percentage[cur] = 100

\* C10: between cycles each channel's running sum is the sum of its buffer.
C10_SumIsBufferSum ==
  (sketch = "enhanced" /\ pc = "loop")
    => \A c \in Channels : totalReading[c] = SumSeq(readings[c])

\* C10 witness: after a validated cycle followed by a failed one the sum is
\* still that of the buffer.
C10_Witness ==
  /\ sketch = "enhanced"
  /\ pc = "loop"
  /\ prevInvalid[0]
  /\ totalReading[0] = 600
  /\ SumSeq(readings[0]) = 600


\* C11: in a validated cycle the raw value selected from the five samples is
\* the middle element of their ascending order: it occurs among the samples,
\* at most two samples are strictly less and at most two strictly greater.
NumLess(t, v) == Cardinality({i \in DOMAIN t : t[i] < v})
NumGreater(t, v) == Cardinality({i \in DOMAIN t : t[i] > v})
C11_MedianSelected ==
  (pc = "rs_off" /\ tempReadings # <<>>) =>
     /\ \E i \in DOMAIN tempReadings : tempReadings[i] = rawValue[cur]
     /\ NumLess(tempReadings, rawValue[cur]) <= numReadings \div 2
     /\ NumGreater(tempReadings, rawValue[cur]) <= numReadings \div 2
C11_Witness ==
  /\ pc = "rs_off"
  /\ tempReadings = <<1023, 0, 900, 300, 600>>
  /\ rawValue[cur] = 600

\* C12: every fired cycle prints exactly one data line timestamp,raw0,raw1, and
\* prints it after both channels were acquired in that cycle; no other step
\* prints a data line, and a cycle returns to loop() only through that line.
NumCsv(q) == Cardinality({i \in DOMAIN q : q[i][1] = "CSV"})
C12_OneLinePerCycle ==
  [][ /\ NumCsv(serial') =
          (IF pc = "send" \/ (sketch = "minimal" /\ pc = "loop") THEN 1 ELSE 0)
      /\ (pc = "send") =>
            /\ acquired = Channels
            /\ serial' = <<CsvLine(clock, rawValue[0], rawValue[1])>>
            /\ pc' = "loop"
      /\ (sketch = "minimal" /\ pc = "loop") =>
            \E a0 \in Samples, a1 \in Samples : serial' = <<CsvLine(clock, a0, a1)>>
      /\ (sketch = "enhanced" /\ pc = "loop") => (pc' = "rs_on" /\ acquired' = {})
      /\ (pc' = "loop" /\ pc # "loop") => (pc = "send" \/ caller = "setup")
    ]_vars
C12_Witness ==
  /\ sketch = "enhanced"
  /\ pc = "loop"
  /\ acquired = Channels
  /\ serial = <<CsvLine(clock, 600, rawValue[1])>>
  /\ lastGoodReading[1] = NoGoodReading

\* C13: a channel whose every sample from startup on is 1023 never passes
\* validation: the filter never runs for it, its last good reading stays -1,
\* its reported raw value stays 0, and no WARNING line is printed for it.
C13_NeverValidSilent ==
  \A c \in Channels :
    (feed[c] = {AdcMax}) =>
       /\ ~(pc = "filter" /\ cur = c)
       /\ lastGoodReading[c] = NoGoodReading
       /\ rawValue[c] = 0
       /\ \A i \in DOMAIN serial : serial[i][1] = "WARNING" => serial[i][2] # c
C13_Witness ==
  /\ feed[0] = {AdcMax}
  /\ pc = "loop"
  /\ acquired = Channels
  /\ sensorError[0]
  /\ lastGoodReading[0] = NoGoodReading
  /\ lastGoodReading[1] # NoGoodReading

\* C14: once setup has returned, whatever the samples are, every fired cycle
\* runs to completion (control returns to loop()) and data lines are printed
\* again and again.
HasDataLine == \E i \in DOMAIN serial : serial[i][1] \in {"CSV", "DATA"}
C14_KeepsReporting ==
  /\ []<>(pc = "loop" /\ HasDataLine)
  /\ (pc = "rs_on") ~> (pc = "loop")
C14_Witness ==
  /\ sketch = "enhanced"
  /\ pc = "loop"
  /\ HasDataLine
  /\ lastGoodReading[0] # NoGoodReading
  /\ prevInvalid[0]
  /\ prevInvalid[1]

\* C15: an acquisition whose validation reading is 0 or 1023 leaves the
\* channel's buffer, running sum, write index and last good reading as they
\* were; it skips the filter; the verdict step changes only the error flag,
\* and the fallback step changes the reported raw value and percentage only
\* when a last good reading exists.
FilterStateSame ==
  /\ readings' = readings
  /\ totalReading' = totalReading
  /\ readIndex' = readIndex
  /\ lastGoodReading' = lastGoodReading
C15_FailedCycleFrame ==
  [][ /\ (pc = "chk_eval" /\ caller = "readSensor" /\ testReading \in {0, 1023}) =>
            /\ FilterStateSame
            /\ pc' = "fallback"
            /\ rawValue' = rawValue
            /\ percentage' = percentage
            /\ sensorError'[cur]
      /\ (pc = "fallback") =>
            /\ FilterStateSame
            /\ pc' = "rs_off"
            /\ sensorError' = sensorError
            /\ (lastGoodReading[cur] = -1) =>
                   (rawValue' = rawValue /\ percentage' = percentage)
      /\ (pc = "rs_off" /\ prevInvalid[cur]) =>
            /\ FilterStateSame
            /\ rawValue' = rawValue
            /\ percentage' = percentage
            /\ sensorError' = sensorError
    ]_vars
C15_Witness ==
  /\ pc = "rs_on"
  /\ cur = 1
  /\ prevInvalid[0]
  /\ lastGoodReading[0] = 600
  /\ totalReading[0] = 600
  /\ readings[0][1] = 600
  /\ sensorError[0]

\* C16: every step of checkSensor and readSensor for one channel leaves the
\* other channel's buffer, sum, raw value, percentage, last good reading, error
\* flag and power output as they were, and leaves the shared write index as it
\* was; what it writes for its own channel is determined by that channel's own
\* state and samples.  Hence the order of the two acquisitions does not matter.
AcquirePcs == {"rs_on", "chk_on", "chk_read", "chk_eval", "filter", "fallback", "rs_off"}
OtherSame(o) ==
  /\ readings'[o] = readings[o]
  /\ totalReading'[o] = totalReading[o]
  /\ rawValue'[o] = rawValue[o]
  /\ percentage'[o] = percentage[o]
  /\ lastGoodReading'[o] = lastGoodReading[o]
  /\ sensorError'[o] = sensorError[o]
  /\ powerPin'[o] = powerPin[o]
C16_ChannelsIndependent ==
  [][ (pc \in AcquirePcs) =>
        /\ \A o \in Channels \ {cur} : OtherSame(o)
        /\ readIndex' = readIndex
        /\ (pc = "chk_eval") => (sensorError'[cur] = (testReading \in {0, 1023}))
        /\ (pc = "filter") =>
              /\ totalReading'[cur] = Int16(Int16(totalReading[cur]
                                        - readings[cur][readIndex + 1]) + rawValue'[cur])
              /\ readings'[cur] = [readings[cur] EXCEPT ![readIndex + 1] = rawValue'[cur]]
              /\ lastGoodReading'[cur] = rawValue'[cur]
              /\ percentage'[cur] = ClampedLinear(CDiv(totalReading'[cur], numReadings))
        /\ (pc = "fallback" /\ lastGoodReading[cur] # -1) =>
              /\ rawValue'[cur] = lastGoodReading[cur]
              /\ percentage'[cur] = ClampedLinear(lastGoodReading[cur])
    ]_vars
C16_Witness ==
  /\ pc = "send"
  /\ rawValue[0] = 600
  /\ sensorError[0]
  /\ rawValue[1] = 1023
  /\ ~sensorError[1]
  /\ powerPin = [c \in Channels |-> "LOW"]

\* C17: in loop() outside an acquisition (after setup, between cycles, while
\* sendData runs) both power outputs are low; when checkSensor has returned
\* its channel's output is low, and when readSensor has returned for a channel
\* that channel's output is low.
AllLow == \A c \in Channels : powerPin[c] = "LOW"
C17_PowerLowAtRest ==
  /\ (pc \in {"loop", "send"}) => AllLow
  /\ (pc \in {"filter", "fallback"}) => powerPin[cur] = "LOW"
  /\ (pc = "chk_on" /\ caller = "setup" /\ cur = 1) => powerPin[0] = "LOW"
  /\ (pc = "rs_on" /\ cur = 1) => powerPin[0] = "LOW"
  /\ \A c \in acquired : (pc # "loop") => powerPin[c] = "LOW"
C17_Witness ==
  /\ pc = "loop"
  /\ acquired = Channels
  /\ AllLow
  /\ lastGoodReading[0] # NoGoodReading
  /\ prevInvalid[1]

\* C18: after every completed cycle, a channel with a last good reading has
\* that reading as its reported raw value, and a channel without one has the
\* startup default 0; the cycle's data line carries exactly these two values
\* after the timestamp and nothing that marks a channel as having no reading.
Reported(c) == IF lastGoodReading[c] # -1 THEN lastGoodReading[c] ELSE 0
C18_ReportedIsLastGood ==
  /\ (sketch = "enhanced" /\ pc \in {"send", "loop"}) =>
        \A c \in Channels : rawValue[c] = Reported(c)
  /\ (sketch = "enhanced" /\ pc = "loop" /\ acquired = Channels) =>
        /\ Len(serial) = 1
        /\ serial[1][1] = "CSV"
        /\ serial[1][2] = clock
        /\ serial[1][3] = Reported(0)
        /\ serial[1][4] = Reported(1)
C18_Witness ==
  /\ sketch = "enhanced"
  /\ pc = "loop"
  /\ acquired = Channels
  /\ lastGoodReading[0] = 600
  /\ prevInvalid[0]
  /\ lastGoodReading[1] = NoGoodReading
  /\ serial = << <<"CSV", clock, 600, 0>> >>

\* C19: in the two dual-sensor loops the timestamps on two consecutive data
\* lines differ by at least sendInterval, modulo the width of the clock.
C19_StampsApart ==
  [][ (phase = "poll" /\ sketch \in {"minimal", "enhanced"} /\ fired') =>
         /\ serial' # <<>>
         /\ serial'[1][1] = "CSV"
         /\ serial'[1][2] = lastStamp'
         /\ (lastStamp # -1) =>
               ((lastStamp' - lastStamp) % ClockModulus) >= sendInterval
    ]_vars
C19_Witness ==
  /\ sketch \in {"minimal", "enhanced"}
  /\ phase = "wait"
  /\ fired
  /\ lastStamp # -1
  /\ lastStamp < sendInterval

====
